---------------------------- MODULE Spec2Model ----------------------------
(***************************************************************************)
(* A model of project-organizer.py: the ProjectOrganizer run of main()     *)
(* (load configuration, analyze_files, organize_files, generate_report,    *)
(* save_report) over a small file tree.                                    *)
(*                                                                         *)
(* A Python str is a sequence of one-character strings, so that the        *)
(* substring tests, the splits and the strip of the classifier are         *)
(* computed character by character, as the code computes them.             *)
(* The content of a file is kept as the sequence of its words and         *)
(* separators; reading the file gives the str they spell.                  *)
(* A path is a record [dir, name]: dir is the sequence of directory names  *)
(* below the root and name is the base filename (a str).                   *)
(* Not modelled: the timestamps (FileInfo.last_modified, the report's      *)
(* timestamp) and the text of the log lines.                               *)
(***************************************************************************)
EXTENDS Naturals, Sequences, FiniteSets

(***************************************************************************)
(* Bounds of the model.                                                    *)
(***************************************************************************)
\* Largest number of words in a content handed to the classifier alone.
MaxWords == 2
\* Largest number of files in the tree that main() runs on.
MaxFiles == 2

(***************************************************************************)
(* str operations                                                          *)
(***************************************************************************)
\* Python's  sub in s
IsIn(sub, s) ==
    \E i \in 0..(Len(s) - Len(sub)) : SubSeq(s, i + 1, i + Len(sub)) = sub

\* Python's  s.endswith(suffix)
endswith(s, suffix) ==
    /\ Len(suffix) <= Len(s)
    /\ SubSeq(s, Len(s) - Len(suffix) + 1, Len(s)) = suffix

\* Python's  s.split(sep)  for a one-character sep: empty pieces are kept.
RECURSIVE split_sep(_, _)
split_sep(s, sep) ==
    IF \E i \in 1..Len(s) : s[i] = sep
    THEN LET i == CHOOSE k \in 1..Len(s) :
                      s[k] = sep /\ \A j \in 1..(k - 1) : s[j] # sep
         IN  <<SubSeq(s, 1, i - 1)>> \o split_sep(SubSeq(s, i + 1, Len(s)), sep)
    ELSE <<s>>

\* The characters str.split() and str.strip() treat as whitespace (those of
\* the alphabet the model's contents are written in).
Whitespace == {" ", "\t", "\n", "\r", "\f"}

\* Python's  s.split()  : runs of whitespace separate, no empty pieces.
RECURSIVE split_ws(_)
split_ws(s) ==
    IF s = <<>> THEN <<>>
    ELSE IF s[1] \in Whitespace THEN split_ws(Tail(s))
    ELSE LET n == IF \E k \in 1..Len(s) : s[k] \in Whitespace
                  THEN (CHOOSE k \in 1..Len(s) :
                            s[k] \in Whitespace
                            /\ \A j \in 1..(k - 1) : s[j] \notin Whitespace) - 1
                  ELSE Len(s)
         IN  <<SubSeq(s, 1, n)>> \o split_ws(SubSeq(s, n + 1, Len(s)))

\* Python's  s.strip(chars)  : every leading and trailing character in chars.
RECURSIVE strip(_, _)
strip(s, chars) ==
    IF s = <<>> THEN s
    ELSE IF s[1] \in chars THEN strip(Tail(s), chars)
    ELSE IF s[Len(s)] \in chars THEN strip(SubSeq(s, 1, Len(s) - 1), chars)
    ELSE s

(***************************************************************************)
(* The classifier: determine_category, determine_priority,                 *)
(* determine_status, find_dependencies, check_if_needs_update.             *)
(***************************************************************************)
\* The dict literal of determine_category, in its insertion order.
categories ==
    << [name |-> "security",
        keywords |-> << <<"S","e","c","u","r","i","t","y","M","a","n","a","g","e","r">>,
                        <<"A","u","t","h","e","n","t","i","c","a","t","i","o","n">>,
                        <<"A","u","t","h","o","r","i","z","a","t","i","o","n">> >>],
       [name |-> "content",
        keywords |-> << <<"C","o","n","t","e","n","t","M","a","n","a","g","e","r">>,
                        <<"M","e","d","i","a","H","a","n","d","l","e","r">>,
                        <<"C","a","t","e","g","o","r","y","M","a","n","a","g","e","r">> >>],
       [name |-> "template",
        keywords |-> << <<"T","e","m","p","l","a","t","e","E","n","g","i","n","e">>,
                        <<"C","a","c","h","e","M","a","n","a","g","e","r">> >>],
       [name |-> "infrastructure",
        keywords |-> << <<"D","a","t","a","b","a","s","e">>,
                        <<"C","a","c","h","e">>,
                        <<"L","o","g","g","e","r">> >> ] >>

\* any(keyword in content for keyword in keywords)
AnyKeyword(keywords, content) ==
    \E k \in 1..Len(keywords) : IsIn(keywords[k], content)

\* The for loop of determine_category from the i-th item of the dict on.
RECURSIVE CategoryFrom(_, _, _)
CategoryFrom(cats, i, content) ==
    IF i > Len(cats) THEN "misc"
    ELSE IF AnyKeyword(cats[i].keywords, content) THEN cats[i].name
    ELSE CategoryFrom(cats, i + 1, content)

\* A determine_category that scans the dict from its last item to its first.
RECURSIVE CategoryFromLast(_, _, _)
CategoryFromLast(cats, i, content) ==
    IF i < 1 THEN "misc"
    ELSE IF AnyKeyword(cats[i].keywords, content) THEN cats[i].name
    ELSE CategoryFromLast(cats, i - 1, content)

determine_category_reversed(content) ==
    CategoryFromLast(categories, Len(categories), content)

determine_category(content) ==
    CategoryFrom(categories, 1, content)

determine_priority(content) ==
    IF IsIn(<<"C","R","I","T","I","C","A","L">>, content) \/ IsIn(<<"H","I","G","H","_","P","R","I","O","R","I","T","Y">>, content)
    THEN "high"
    ELSE IF IsIn(<<"I","M","P","O","R","T","A","N","T">>, content) \/ IsIn(<<"M","E","D","I","U","M","_","P","R","I","O","R","I","T","Y">>, content)
    THEN "medium"
    ELSE "low"

determine_status(content) ==
    IF IsIn(<<"N","E","E","D","S","_","U","P","D","A","T","E">>, content) THEN "needs_update"
    ELSE IF IsIn(<<"U","S","A","B","L","E">>, content) THEN "usable"
    ELSE IF IsIn(<<"N","E","E","D","S","_","M","E","R","G","E">>, content) THEN "needs_merge"
    ELSE "unknown"

\* The body of find_dependencies's loop for the lines from the i-th on.
RECURSIVE DependenciesFrom(_, _)
DependenciesFrom(lines, i) ==
    IF i > Len(lines) THEN <<>>
    ELSE LET line == lines[i]
             toks == split_ws(line)
         IN  IF IsIn(<<"u","s","e">>, line) \/ IsIn(<<"r","e","q","u","i","r","e">>, line) \/ IsIn(<<"i","n","c","l","u","d","e">>, line)
             THEN <<strip(toks[Len(toks)], {";"})>> \o DependenciesFrom(lines, i + 1)
             ELSE DependenciesFrom(lines, i + 1)

\* A find_dependencies that takes the first token of the line, not the last.
RECURSIVE DependenciesFirstFrom(_, _)
DependenciesFirstFrom(lines, i) ==
    IF i > Len(lines) THEN <<>>
    ELSE LET line == lines[i]
             toks == split_ws(line)
         IN  IF IsIn(<<"u","s","e">>, line) \/ IsIn(<<"r","e","q","u","i","r","e">>, line) \/ IsIn(<<"i","n","c","l","u","d","e">>, line)
             THEN <<strip(toks[1], {";"})>> \o DependenciesFirstFrom(lines, i + 1)
             ELSE DependenciesFirstFrom(lines, i + 1)

find_dependencies_first_token(content) ==
    DependenciesFirstFrom(split_sep(content, "\n"), 1)

find_dependencies(content) ==
    DependenciesFrom(split_sep(content, "\n"), 1)

\* A check_if_needs_update that forgets the NEEDS_UPDATE marker.
check_if_needs_update_todo_only(content) ==
    IsIn(<<"T","O","D","O">>, content) \/ IsIn(<<"F","I","X","M","E">>, content)

check_if_needs_update(content) ==
    \/ IsIn(<<"T","O","D","O">>, content)
    \/ IsIn(<<"F","I","X","M","E">>, content)
    \/ IsIn(<<"N","E","E","D","S","_","U","P","D","A","T","E">>, content)

\* The FileInfo that analyze_single_file builds for a file it could read.
FileInfo(file_path, content) ==
    [ path         |-> file_path,
      category     |-> determine_category(content),
      priority     |-> determine_priority(content),
      status       |-> determine_status(content),
      dependencies |-> find_dependencies(content),
      needs_update |-> check_if_needs_update(content) ]

(***************************************************************************)
(* The file tree and the inputs of the model.                              *)
(***************************************************************************)
Path(dir, name) == [dir |-> dir, name |-> name]

\* os.path.basename(source)
basename(p) == p.name

\* os.path.join(target_dir, filename)
join(target_dir, filename) == Path(target_dir, filename)

\* The directories a directory lies in, itself included (the root is <<>>).
Prefixes(dir) == { SubSeq(dir, 1, n) : n \in 0..Len(dir) }

\* The characters of the words and separators file contents are made of.
Chars(w) ==
    CASE w = " " -> <<" ">>
      [] w = "\n" -> <<"\n">>
      [] w = "//" -> <<"/","/">>
      [] w = "{" -> <<"{">>
      [] w = "}" -> <<"}">>
      [] w = "class" -> <<"c","l","a","s","s">>
      [] w = "use" -> <<"u","s","e">>
      [] w = "require" -> <<"r","e","q","u","i","r","e">>
      [] w = "UtilLib;" -> <<"U","t","i","l","L","i","b",";">>
      [] w = "ContentManager;" -> <<"C","o","n","t","e","n","t","M","a","n","a","g","e","r",";">>
      [] w = "SecurityManager" -> <<"S","e","c","u","r","i","t","y","M","a","n","a","g","e","r">>
      [] w = "ContentManager" -> <<"C","o","n","t","e","n","t","M","a","n","a","g","e","r">>
      [] w = "CacheManager" -> <<"C","a","c","h","e","M","a","n","a","g","e","r">>
      [] w = "Database" -> <<"D","a","t","a","b","a","s","e">>
      [] w = "CRITICAL" -> <<"C","R","I","T","I","C","A","L">>
      [] w = "IMPORTANT" -> <<"I","M","P","O","R","T","A","N","T">>
      [] w = "NEEDS_UPDATE" -> <<"N","E","E","D","S","_","U","P","D","A","T","E">>
      [] w = "USABLE" -> <<"U","S","A","B","L","E">>
      [] w = "NEEDS_MERGE" -> <<"N","E","E","D","S","_","M","E","R","G","E">>
      [] w = "TODO" -> <<"T","O","D","O">>

\* The str a sequence of words and separators spells.
RECURSIVE Text(_)
Text(ws) == IF ws = <<>> THEN <<>> ELSE Chars(Head(ws)) \o Text(Tail(ws))

\* with open(file_path, 'r', encoding='utf-8') as f: content = f.read()
read(file) == Text(file.content)

\* The contents of the files of the tree main() runs on:
\* "class SecurityManager { } // CRITICAL TODO"
ContentSecurityTodo ==
    << "class", " ", "SecurityManager", " ", "{", " ", "}", " ", "//", " ",
       "CRITICAL", " ", "TODO" >>
\* "require UtilLib; // USABLE"
ContentRequireUsable == << "require", " ", "UtilLib;", " ", "//", " ", "USABLE" >>
\* "use ContentManager;\n// IMPORTANT NEEDS_UPDATE"
ContentUseContent ==
    << "use", " ", "ContentManager;", "\n", "//", " ", "IMPORTANT", " ",
       "NEEDS_UPDATE" >>
\* "Database NEEDS_MERGE"
ContentDatabaseMerge == << "Database", " ", "NEEDS_MERGE" >>

TreeContents ==
    { ContentSecurityTodo, ContentRequireUsable, ContentUseContent,
      ContentDatabaseMerge }

\* The places a file of the tree may lie at.
TreePaths ==
    { Path(<<>>, <<"a",".","p","h","p">>),
      Path(<<>>, <<"b",".","p","h","p">>),
      Path(<<>>, <<"a",".","t","x","t">>),
      Path(<<"sub">>, <<"a",".","p","h","p">>),
      Path(<<"Core", "Content">>, <<"a",".","p","h","p">>) }

\* The words the contents handed to the classifier alone are made of.
Vocab ==
    { "SecurityManager", "ContentManager", "CacheManager", "Database",
      "CRITICAL", "IMPORTANT", "NEEDS_UPDATE", "USABLE", "NEEDS_MERGE",
      "TODO", "require", "UtilLib;", "//" }

\* The contents of at most n words, separated by a space or a line break.
RECURSIVE Texts(_)
Texts(n) ==
    IF n <= 1 THEN { <<w>> : w \in Vocab }
    ELSE Texts(n - 1) \cup
         { t \o <<sep, w>> : t \in Texts(n - 1), sep \in {" ", "\n"}, w \in Vocab }

ClassifierInputs == Texts(MaxWords) \cup TreeContents

(***************************************************************************)
(* State                                                                   *)
(***************************************************************************)
VARIABLES
    pc,             \* where main() is: "start", "analyze", "organize",
                    \* "report", "save", "done", "raised" (main re-raised);
                    \* "call" / "returned": a direct call of analyze_single_file
    raisedIn,       \* the method the exception main() re-raised came out of
    config,         \* what load_configuration found: "not_loaded", "loaded",
                    \* "unreadable", "invalid_json"
    files,          \* the files of the tree: path -> [content, id], content
                    \* being the file's words and separators and id
                    \* being the path the file lay at when the process
                    \* started (a rename keeps the file, so its id)
    dirs,           \* the directories of the tree
    files0,         \* the files of the tree when the process started
    fault,          \* per file: "none", "unreadable" (open/read/decode/stat
                    \* raises), "immovable" (shutil.move of it raises)
    pending,        \* the files os.walk has not yielded yet
    file_registry,  \* self.file_registry: the FileInfo records, in the
                    \* insertion order of the dict
    orgIdx,         \* the item of file_registry organize_files is at
    report,         \* <<>>, or <<r>> for the report generate_report returned
    reportFile      \* <<>>, or <<r>> for the report save_report wrote

vars == << pc, raisedIn, config, files, dirs, files0, fault, pending,
           file_registry, orgIdx, report, reportFile >>

\* self.core_directories
core_directories ==
    [ security       |-> <<"Core", "Security">>,
      content        |-> <<"Core", "Content">>,
      template       |-> <<"Core", "Template">>,
      infrastructure |-> <<"Infrastructure">>,
      tests          |-> <<"Tests">>,
      docs           |-> <<"Documentation">> ]

\* self.file_registry[file_path] = file_info : a new key is appended, an
\* existing key keeps its place.
RegistryPut(reg, info) ==
    IF \E i \in 1..Len(reg) : reg[i].path = info.path
    THEN [ i \in 1..Len(reg) |-> IF reg[i].path = info.path THEN info ELSE reg[i] ]
    ELSE Append(reg, info)

RegistryKeys(reg) == { reg[i].path : i \in 1..Len(reg) }

\* The tree right after the process started.
TreeInit(fs) ==
    /\ files = [ p \in DOMAIN fs |-> [content |-> fs[p], id |-> p] ]
    /\ files0 = files
    /\ dirs = UNION { Prefixes(p.dir) : p \in DOMAIN fs }
    /\ fault \in [DOMAIN fs -> {"none", "unreadable", "immovable"}]
    /\ pending = DOMAIN fs
    /\ file_registry = <<>>
    /\ orgIdx = 1
    /\ raisedIn = "none"
    /\ config = "not_loaded"
    /\ report = <<>>
    /\ reportFile = <<>>

Init ==
    /\ pc = "start"
    /\ \E S \in SUBSET TreePaths :
         /\ Cardinality(S) <= MaxFiles
         /\ \E fs \in [S -> TreeContents] : TreeInit(fs)

(***************************************************************************)
(* ProjectOrganizer.__init__ and load_configuration                        *)
(***************************************************************************)
\* load_configuration returns the configuration: __init__ completes.
load_configuration_ok ==
    /\ pc = "start"
    /\ config' = "loaded"
    /\ pc' = "analyze"
    /\ UNCHANGED << raisedIn, files, dirs, files0, fault, pending,
                    file_registry, orgIdx, report, reportFile >>

\* A load_configuration that logs the failure and returns an empty
\* configuration instead of re-raising.
load_configuration_swallows ==
    /\ pc = "start"
    /\ \E why \in {"unreadable", "invalid_json"} : config' = why
    /\ pc' = "analyze"
    /\ UNCHANGED << raisedIn, files, dirs, files0, fault, pending,
                    file_registry, orgIdx, report, reportFile >>

\* open() or json.load() raises: load_configuration logs and re-raises, out
\* of __init__ and, through main's except clause, out of main.
load_configuration_raises ==
    /\ pc = "start"
    /\ \E why \in {"unreadable", "invalid_json"} : config' = why
    /\ pc' = "raised"
    /\ raisedIn' = "__init__"
    /\ UNCHANGED << files, dirs, files0, fault, pending,
                    file_registry, orgIdx, report, reportFile >>

(***************************************************************************)
(* analyze_files and analyze_single_file                                   *)
(***************************************************************************)
\* An analyze_single_file without its try/except: the exception of an
\* unreadable file comes out of it.
analyze_single_file_unguarded(file_path) ==
    IF fault[file_path] = "unreadable"
    THEN /\ file_registry' = file_registry
         /\ raisedIn' = "analyze_single_file"
    ELSE /\ file_registry' =
               RegistryPut(file_registry, FileInfo(file_path, read(files[file_path])))
         /\ raisedIn' = raisedIn

\* analyze_single_file: any exception of the try block (open, read, decode,
\* getmtime) is caught and logged, and the file is not registered.
analyze_single_file(file_path) ==
    IF fault[file_path] = "unreadable"
    THEN /\ file_registry' = file_registry
         /\ raisedIn' = raisedIn
    ELSE /\ file_registry' =
               RegistryPut(file_registry, FileInfo(file_path, read(files[file_path])))
         /\ raisedIn' = raisedIn

\* os.walk is top-down: a directory's files are yielded before those of the
\* directories below it; the order within a directory is the system's.
WalkNext(p) ==
    /\ p \in pending
    /\ \A q \in pending :
         ~(Len(q.dir) < Len(p.dir) /\ q.dir = SubSeq(p.dir, 1, Len(q.dir)))

\* if file.endswith('.php')
\* A filter that lets every file through.
MatchesAny(file) == TRUE

Matches(file) == endswith(file, <<".","p","h","p">>)

\* One iteration of analyze_files on a file the filter lets through. An
\* exception that came out of analyze_single_file would end main.
analyze_files_php(p) ==
    /\ pc = "analyze"
    /\ WalkNext(p)
    /\ Matches(p.name)
    /\ pending' = pending \ {p}
    /\ analyze_single_file(p)
    /\ pc' = IF raisedIn' = "none" THEN pc ELSE "raised"
    /\ UNCHANGED << config, files, dirs, files0, fault, orgIdx, report,
                    reportFile >>

\* One iteration of analyze_files on any other file.
analyze_files_other(p) ==
    /\ pc = "analyze"
    /\ WalkNext(p)
    /\ ~Matches(p.name)
    /\ pending' = pending \ {p}
    /\ UNCHANGED << pc, raisedIn, config, files, dirs, files0, fault,
                    file_registry, orgIdx, report, reportFile >>

\* The walk is over: analyze_files returns and main calls organize_files.
analyze_files_return ==
    /\ pc = "analyze"
    /\ pending = {}
    /\ pc' = "organize"
    /\ orgIdx' = 1
    /\ UNCHANGED << raisedIn, config, files, dirs, files0, fault, pending,
                    file_registry, report, reportFile >>

(***************************************************************************)
(* organize_files, ensure_directory and move_file                          *)
(***************************************************************************)
\* os.path.join(self.root_path, self.core_directories[file_info.category])
TargetDir(info) == core_directories[info.category]

\* The destination move_file computes for a record.
Destination(info) == join(TargetDir(info), basename(info.path))

\* A move_file that joins the target directory with the source path itself
\* (no basename): os.path.join then returns the source, and nothing moves.
move_file_without_basename(fs, source, target_dir) == fs

\* The tree after move_file(source, target_dir). shutil.move renames: it
\* replaces a file already at the destination, and renaming a file onto
\* itself changes nothing. An exception (the source is gone, the move is
\* refused) is caught and logged, and the tree is as before.
move_file(fs, source, target_dir) ==
    LET destination == join(target_dir, basename(source))
    IN  IF source \notin DOMAIN fs \/ fault[source] = "immovable" THEN fs
        ELSE IF destination = source THEN fs
        ELSE [ p \in (DOMAIN fs \ {source}) \cup {destination} |->
                 IF p = destination THEN fs[source] ELSE fs[p] ]

\* One iteration of organize_files on a record whose category is no key of
\* core_directories.
organize_files_skip ==
    /\ pc = "organize"
    /\ orgIdx <= Len(file_registry)
    /\ file_registry[orgIdx].category \notin DOMAIN core_directories
    /\ orgIdx' = orgIdx + 1
    /\ UNCHANGED << pc, raisedIn, config, files, dirs, files0, fault, pending,
                    file_registry, report, reportFile >>

\* An organize_files that re-keys the record of a file it has moved.
organize_files_move_rekeys ==
    /\ pc = "organize"
    /\ orgIdx <= Len(file_registry)
    /\ file_registry[orgIdx].category \in DOMAIN core_directories
    /\ LET info == file_registry[orgIdx]
       IN  /\ dirs' = dirs \cup Prefixes(TargetDir(info))
           /\ files' = move_file(files, info.path, TargetDir(info))
           /\ file_registry' =
                 IF files' = files THEN file_registry
                 ELSE [ file_registry EXCEPT ![orgIdx].path = Destination(info) ]
    /\ orgIdx' = orgIdx + 1
    /\ UNCHANGED << pc, raisedIn, config, files0, fault, pending,
                    report, reportFile >>

\* One iteration of organize_files on a record whose category is a key:
\* ensure_directory finds the directory or os.makedirs creates it (and the
\* directories above it), then move_file.
organize_files_move ==
    /\ pc = "organize"
    /\ orgIdx <= Len(file_registry)
    /\ file_registry[orgIdx].category \in DOMAIN core_directories
    /\ LET info == file_registry[orgIdx]
       IN  /\ dirs' = dirs \cup Prefixes(TargetDir(info))
           /\ files' = move_file(files, info.path, TargetDir(info))
    /\ orgIdx' = orgIdx + 1
    /\ UNCHANGED << pc, raisedIn, config, files0, fault, pending,
                    file_registry, report, reportFile >>

\* One iteration of organize_files in which os.makedirs raises: nothing in
\* ensure_directory or organize_files catches it, so it ends organize_files
\* and, through main's except clause, main.
organize_files_makedirs_raises ==
    /\ pc = "organize"
    /\ orgIdx <= Len(file_registry)
    /\ file_registry[orgIdx].category \in DOMAIN core_directories
    /\ TargetDir(file_registry[orgIdx]) \notin dirs
    /\ pc' = "raised"
    /\ raisedIn' = "organize_files"
    /\ UNCHANGED << config, files, dirs, files0, fault, pending,
                    file_registry, orgIdx, report, reportFile >>

\* The loop is over: organize_files returns and main calls generate_report.
organize_files_return ==
    /\ pc = "organize"
    /\ orgIdx > Len(file_registry)
    /\ pc' = "report"
    /\ UNCHANGED << raisedIn, config, files, dirs, files0, fault, pending,
                    file_registry, orgIdx, report, reportFile >>

(***************************************************************************)
(* generate_report and save_report                                         *)
(***************************************************************************)
\* d[k] = v on a dict
DictPut(d, k, v) == [ x \in DOMAIN d \cup {k} |-> IF x = k THEN v ELSE d[x] ]

\* The report generate_report starts from.
EmptyReport(reg) ==
    [ total_files  |-> Len(reg),
      categories   |-> [ c \in {} |-> <<>> ],
      priorities   |-> [ k \in {"high", "medium", "low"} |-> <<>> ],
      status       |-> [ k \in {"needs_update", "usable", "needs_merge"} |-> <<>> ],
      dependencies |-> [ p \in {} |-> <<>> ] ]

\* The loop of generate_report from the i-th record on: the report, or the
\* KeyError of a priority or status that is no key of its dict.
RECURSIVE ReportFrom(_, _, _)
ReportFrom(reg, i, rep) ==
    IF i > Len(reg) THEN [ raised |-> FALSE, report |-> <<rep>> ]
    ELSE LET info == reg[i]
             cats == IF info.category \in DOMAIN rep.categories
                     THEN rep.categories
                     ELSE DictPut(rep.categories, info.category, <<>>)
         IN  IF info.priority \notin DOMAIN rep.priorities
                \/ info.status \notin DOMAIN rep.status
             THEN [ raised |-> TRUE, report |-> <<>> ]
             ELSE ReportFrom(reg, i + 1,
                    [ rep EXCEPT
                        !.categories = DictPut(cats, info.category,
                                               Append(cats[info.category], info.path)),
                        !.priorities[info.priority] = Append(@, info.path),
                        !.status[info.status] = Append(@, info.path),
                        !.dependencies = DictPut(@, info.path, info.dependencies) ])

\* generate_report: main stores what it returns; a KeyError ends main.
generate_report ==
    /\ pc = "report"
    /\ LET r == ReportFrom(file_registry, 1, EmptyReport(file_registry))
       IN  /\ report' = r.report
           /\ pc' = IF r.raised THEN "raised" ELSE "save"
           /\ raisedIn' = IF r.raised THEN "generate_report" ELSE raisedIn
    /\ UNCHANGED << config, files, dirs, files0, fault, pending,
                    file_registry, orgIdx, reportFile >>

\* save_report writes the report.
save_report_ok ==
    /\ pc = "save"
    /\ reportFile' = report
    /\ pc' = "done"
    /\ UNCHANGED << raisedIn, config, files, dirs, files0, fault, pending,
                    file_registry, orgIdx, report >>

\* save_report cannot write: the exception is caught and logged.
save_report_fails ==
    /\ pc = "save"
    /\ pc' = "done"
    /\ UNCHANGED << raisedIn, config, files, dirs, files0, fault, pending,
                    file_registry, orgIdx, report, reportFile >>

(***************************************************************************)
(* main()                                                                  *)
(***************************************************************************)
Next ==
    \/ load_configuration_ok
    \/ load_configuration_raises
    \/ \E p \in pending : analyze_files_php(p)
    \/ \E p \in pending : analyze_files_other(p)
    \/ analyze_files_return
    \/ organize_files_skip
    \/ organize_files_move
    \/ organize_files_makedirs_raises
    \/ organize_files_return
    \/ generate_report
    \/ save_report_ok
    \/ save_report_fails

Spec == Init /\ [][Next]_vars

(***************************************************************************)
(* analyze_single_file called on one file of any name and content.         *)
(***************************************************************************)
InitCall ==
    /\ pc = "call"
    /\ \E name \in { <<"a",".","p","h","p">>, <<"b",".","t","x","t">> } :
         \E content \in ClassifierInputs :
            TreeInit([ p \in {Path(<<>>, name)} |-> content ])

call_analyze_single_file ==
    /\ pc = "call"
    /\ \E p \in DOMAIN files : analyze_single_file(p)
    /\ pc' = IF raisedIn' = "none" THEN "returned" ELSE "raised"
    /\ UNCHANGED << config, files, dirs, files0, fault, pending, orgIdx,
                    report, reportFile >>

NextCall == call_analyze_single_file

SpecClassify == InitCall /\ [][NextCall]_vars

(***************************************************************************)
(* Properties                                                              *)
(***************************************************************************)
Records == { file_registry[i] : i \in 1..Len(file_registry) }

InSeq(x, s) == \E i \in 1..Len(s) : s[i] = x

Mapped(r) == r.category \in DOMAIN core_directories

\* analyze_files has returned.
ScanOver ==
    \/ pc \in {"organize", "report", "save", "done"}
    \/ pc = "raised" /\ raisedIn \in {"organize_files", "generate_report"}

\* organize_files has ended, by returning or by raising.
OrganizeOver ==
    \/ pc \in {"report", "save", "done"}
    \/ pc = "raised" /\ raisedIn \in {"organize_files", "generate_report"}

\* generate_report has ended, by returning or by raising.
ReportOver ==
    \/ pc \in {"save", "done"}
    \/ pc = "raised" /\ raisedIn = "generate_report"

\* The files of the tree the scan can register: name ending in .php, readable.
Analyzable ==
    { p \in DOMAIN files0 : endswith(p.name, <<".","p","h","p">>) /\ fault[p] # "unreadable" }

\* The paths a report lists in the buckets of one of its groupings.
BucketsWith(group, p) == { k \in DOMAIN group : InSeq(p, group[k]) }

\* C1: generate_report completes and its report holds every record's path
\* in exactly one category bucket, exactly one priority bucket, exactly one
\* status bucket (the records of status unknown too) and as one key of the
\* dependencies map.
C1_ReportBucketsEveryRecord ==
    ReportOver =>
        /\ raisedIn # "generate_report"
        /\ report # <<>>
        /\ \A r \in Records :
             /\ Cardinality(BucketsWith(report[1].categories, r.path)) = 1
             /\ Cardinality(BucketsWith(report[1].priorities, r.path)) = 1
             /\ Cardinality(BucketsWith(report[1].status, r.path)) = 1
             /\ r.path \in DOMAIN report[1].dependencies

\* Handling some record has failed in organize_files: os.makedirs raised, or
\* the move of a record was refused.
SomeOrganizeFailure ==
    \/ raisedIn = "organize_files"
    \/ \E r \in Records : Mapped(r) /\ fault[r.path] = "immovable"

\* C2: a failure while handling one record of organize_files (in ensuring
\* the directory or in the move) never aborts the batch: organize_files
\* returns normally and every record of a mapped category whose own move
\* does not fail has its file in its target directory.
C2_FailureNeverAbortsBatch ==
    (OrganizeOver /\ SomeOrganizeFailure) =>
        /\ raisedIn # "organize_files"
        /\ \A r \in Records :
             (Mapped(r) /\ fault[r.path] # "immovable") =>
                 /\ Destination(r) \in DOMAIN files
                 /\ files[Destination(r)].id = r.path

\* C3: the scan never raises, and the registry's keys are exactly the
\* matching files walked so far that did not fail; once the scan is over
\* they are exactly the matching files that did not fail, and the registry
\* has as many records.
C3_ScanRegistersExactlyReadable ==
    /\ raisedIn # "analyze_single_file"
    /\ pc = "analyze" =>
         RegistryKeys(file_registry) = Analyzable \ pending
    /\ ScanOver =>
         /\ RegistryKeys(file_registry) = Analyzable
         /\ Len(file_registry) = Cardinality(Analyzable)

\* The scan is over; a matching file of the root failed and is not
\* registered, a matching file walked after it (it lies in sub) is.
C3_FailedFileSkippedLaterRegistered ==
    /\ pc = "organize"
    /\ \E p, q \in DOMAIN files0 :
         /\ p.dir = <<>> /\ endswith(p.name, <<".","p","h","p">>)
         /\ fault[p] = "unreadable"
         /\ p \notin RegistryKeys(file_registry)
         /\ q.dir = <<"sub">>
         /\ q \in RegistryKeys(file_registry)

\* C4: when the configuration is unreadable or no valid JSON, the failure
\* comes out of the constructor and out of main, and in that run no file
\* is analyzed, no directory created, no file moved and no report
\* generated or written.
C4_ConfigFailureAborts ==
    config \in {"unreadable", "invalid_json"} =>
        /\ pc = "raised"
        /\ raisedIn = "__init__"
        /\ pending = DOMAIN files0
        /\ file_registry = <<>>
        /\ files = files0
        /\ dirs = UNION { Prefixes(p.dir) : p \in DOMAIN files0 }
        /\ report = <<>>
        /\ reportFile = <<>>

\* main has re-raised the failure of an invalid configuration, with a
\* matching file in the tree.
C4_InvalidJsonRaised ==
    /\ config = "invalid_json"
    /\ pc = "raised"
    /\ \E p \in DOMAIN files0 : endswith(p.name, <<".","p","h","p">>) /\ fault[p] = "none"

\* C5 as stated: the record of a file whose content is the line
\* "require UtilLib; // USABLE" is misc, low, usable, dependencies
\* ["UtilLib"], needs_update false.
C5_RequireLineDependsOnUtilLib ==
    \A r \in Records :
        read(files[r.path]) = Text(ContentRequireUsable) =>
            /\ r.category = "misc"
            /\ r.priority = "low"
            /\ r.status = "usable"
            /\ r.dependencies = << <<"U","t","i","l","L","i","b">> >>
            /\ r.needs_update = FALSE

\* C5 amended: the record of a file whose content is the line
\* "require UtilLib; // USABLE" is misc, low, usable, needs_update false,
\* and its dependencies are ["USABLE"], the last token of the line.
C5_RequireLineDependsOnLastToken ==
    \A r \in Records :
        read(files[r.path]) = Text(ContentRequireUsable) =>
            /\ r.category = "misc"
            /\ r.priority = "low"
            /\ r.status = "usable"
            /\ r.dependencies = << <<"U","S","A","B","L","E">> >>
            /\ r.needs_update = FALSE

\* analyze_single_file has returned and registered a file of that content.
C5_RequireLineAnalyzed ==
    /\ pc = "returned"
    /\ \E r \in Records : read(files[r.path]) = Text(ContentRequireUsable)

\* The record the scenario of C6 expects for a path.
IsSecurityTodoRecord(r, p) ==
    /\ r.path = p
    /\ r.category = "security"
    /\ r.priority = "high"
    /\ r.status = "unknown"
    /\ r.needs_update = TRUE
    /\ r.dependencies = <<>>

\* C6 as stated: a scan of a root that holds the readable file a.txt with
\* content "class SecurityManager { } // CRITICAL TODO" ends with a record
\* for a.txt: security, high, unknown, needs_update true, no dependencies.
C6_TxtFileRegistered ==
    pc = "organize" =>
        \A p \in DOMAIN files0 :
            ( /\ p = Path(<<>>, <<"a",".","t","x","t">>)
              /\ read(files0[p]) = Text(ContentSecurityTodo)
              /\ fault[p] # "unreadable" ) =>
                \E r \in Records : IsSecurityTodoRecord(r, p)

\* C6 amended: once the scan is over, a readable file of that content has
\* that record if its name ends in .php, and no record if it does not.
C6_PhpFileRegisteredTxtNot ==
    ScanOver =>
        \A p \in DOMAIN files0 :
            (read(files0[p]) = Text(ContentSecurityTodo) /\ fault[p] # "unreadable") =>
                IF endswith(p.name, <<".","p","h","p">>)
                THEN \E r \in Records : IsSecurityTodoRecord(r, p)
                ELSE p \notin RegistryKeys(file_registry)

\* The scan is over on a root holding a.php and a.txt, both readable and of
\* that content: a.php is registered and a.txt is not.
C6_ScannedPhpAndTxt ==
    /\ pc = "organize"
    /\ \E p, q \in DOMAIN files0 :
         /\ p = Path(<<>>, <<"a",".","p","h","p">>) /\ q = Path(<<>>, <<"a",".","t","x","t">>)
         /\ read(files0[p]) = Text(ContentSecurityTodo) /\ fault[p] # "unreadable"
         /\ read(files0[q]) = Text(ContentSecurityTodo) /\ fault[q] # "unreadable"
         /\ p \in RegistryKeys(file_registry)
         /\ q \notin RegistryKeys(file_registry)

\* The fixed order of the categories, and the markers of one of them.
CategoryOrder == <<"security", "content", "template", "infrastructure">>

MarkerPresent(name, content) ==
    LET entry == categories[CHOOSE i \in 1..Len(categories) : categories[i].name = name]
    IN  \E k \in 1..Len(entry.keywords) : IsIn(entry.keywords[k], content)

\* C7: the category of a record is the earliest category of the order
\* security, content, template, infrastructure with a marker in the
\* content, and misc when no category has one; a content with a security
\* marker is security.
C7_FirstMatchWins ==
    \A r \in Records :
        LET content == read(files[r.path])
        IN  /\ (r.category = "misc") =
                 (\A i \in 1..Len(CategoryOrder) : ~MarkerPresent(CategoryOrder[i], content))
            /\ r.category # "misc" =>
                 \E i \in 1..Len(CategoryOrder) :
                    /\ CategoryOrder[i] = r.category
                    /\ MarkerPresent(CategoryOrder[i], content)
                    /\ \A j \in 1..(i - 1) : ~MarkerPresent(CategoryOrder[j], content)
            /\ MarkerPresent("security", content) => r.category = "security"

\* A registered content with markers of content and of infrastructure,
\* resolved to content.
C7_TwoCategoriesResolved ==
    /\ pc = "returned"
    /\ \E r \in Records :
         /\ MarkerPresent("content", read(files[r.path]))
         /\ MarkerPresent("infrastructure", read(files[r.path]))
         /\ r.category = "content"

\* organize_files has returned.
OrganizeReturned ==
    \/ pc \in {"report", "save", "done"}
    \/ pc = "raised" /\ raisedIn = "generate_report"

\* C8 as stated: after organize_files, the file of a record whose category
\* is no key of the mapping is at its original path with its original
\* content, and the file of a record whose category is a key is at
\* <root>/<mapped directory>/<base filename>.
C8_UnmappedUntouchedMappedMoved ==
    OrganizeReturned =>
        \A r \in Records :
            IF Mapped(r)
            THEN /\ Destination(r) \in DOMAIN files
                 /\ files[Destination(r)].id = r.path
            ELSE /\ r.path \in DOMAIN files
                 /\ files[r.path] = files0[r.path]

\* The records organize_files has handled so far.
Handled == { file_registry[i] : i \in 1..(orgIdx - 1) }

\* Another mapped record's move starts from or ends at the source or the
\* destination of the move of r.
SharesPath(r) ==
    \E s \in Records :
        /\ s # r
        /\ Mapped(s)
        /\ \/ s.path = Destination(r)
           \/ Destination(s) = Destination(r)
           \/ Destination(s) = r.path

\* C8 amended: organize_files never moves the file of a record whose
\* category is no key of the mapping: that file stays at its original path,
\* with its original content unless a handled record of a mapped category
\* has that path as its destination (its file then replaced it); and every
\* handled record of a mapped category whose move was not refused, and
\* whose source and destination no other mapped record's move starts from
\* or ends at, has its file at <root>/<mapped directory>/<base filename>.
C8_UnmappedNeverMovedMappedAtDestination ==
    ScanOver =>
        \A r \in Records :
            IF Mapped(r)
            THEN (r \in Handled /\ fault[r.path] # "immovable" /\ ~SharesPath(r)) =>
                     /\ Destination(r) \in DOMAIN files
                     /\ files[Destination(r)].id = r.path
            ELSE /\ r.path \in DOMAIN files
                 /\ \A p \in DOMAIN files : files[p].id = r.path => p = r.path
                 /\ \/ files[r.path] = files0[r.path]
                    \/ \E s \in Handled :
                          Mapped(s) /\ s.path # r.path /\ Destination(s) = r.path

\* organize_files has returned: a misc file that lay inside a target
\* directory is untouched, and a file of a mapped category has been moved
\* into that directory.
C8_MiscInTargetDirKeptOtherMoved ==
    /\ pc = "report"
    /\ \E u, m \in Records :
         /\ ~Mapped(u)
         /\ u.path.dir = <<"Core", "Content">>
         /\ files[u.path] = files0[u.path]
         /\ Mapped(m)
         /\ Destination(m) # m.path
         /\ Destination(m).dir = <<"Core", "Content">>
         /\ Destination(m) \in DOMAIN files
         /\ files[Destination(m)].id = m.path

\* The paths a report lists.
ReportPaths(rep) ==
    UNION { { rep.categories[c][i] : i \in 1..Len(rep.categories[c]) } :
            c \in DOMAIN rep.categories }

\* C9: organize_files never changes the registry; so the report generated
\* after it lists the registry's keys (for a moved file its path before the
\* move), and its total_files is the number of files analyzed.
C9_OrganizeKeepsRegistry ==
    /\ [][pc = "organize" => file_registry' = file_registry]_vars
    /\ [](report # <<>> =>
            /\ report[1].total_files = Cardinality(Analyzable)
            /\ ReportPaths(report[1]) = Analyzable
            /\ DOMAIN report[1].dependencies = Analyzable
            /\ \A p \in DOMAIN files :
                 files[p].id \in Analyzable => files[p].id \in ReportPaths(report[1]))

\* A report has been generated after a file was moved: it lists the path
\* the file was analyzed at, and not the path it now lies at.
C9_ReportListsPreMovePath ==
    /\ report # <<>>
    /\ \E r \in Records :
         /\ Mapped(r)
         /\ r.path \notin DOMAIN files
         /\ Destination(r) \in DOMAIN files
         /\ files[Destination(r)].id = r.path
         /\ r.path \in ReportPaths(report[1])
         /\ Destination(r) \notin ReportPaths(report[1])

\* C10: every record of status needs_update has needs_update true, and a
\* record with needs_update false has status usable, needs_merge or
\* unknown.
C10_StatusNeedsUpdateImpliesFlag ==
    \A r \in Records :
        /\ r.status = "needs_update" => r.needs_update = TRUE
        /\ r.needs_update = FALSE => r.status \in {"usable", "needs_merge", "unknown"}

\* The converse fails: a record of the content "TODO" has status unknown
\* and needs_update true.
C10_TodoOnlyUnknownButFlagged ==
    \E r \in Records :
        /\ read(files[r.path]) = <<"T","O","D","O">>
        /\ r.status = "unknown"
        /\ r.needs_update = TRUE

=============================================================================
